---- MODULE Spec2Model ----
(***************************************************************************)
(* The five policy engines of ProcessSchedulingSimulator                   *)
(* (src/process-scheduling-simulator.py): fcfs_scheduling, spn_scheduling, *)
(* hrrn_scheduling, rr_scheduling and srtf_scheduling.                     *)
(*                                                                         *)
(* One behaviour is one call of one engine.  The process records are       *)
(* Python dicts that the lists only reference, so the model keeps a heap   *)
(* rec (object -> record) and lists of objects.                            *)
(*                                                                         *)
(* Time is counted in ticks of 1/TicksPerUnit of a time unit, so that a    *)
(* fractional context switch is an integer number of ticks: the form's     *)
(* default context switch is 0.5, i.e. one tick of half a unit.  Burst     *)
(* times, arrival times and the quantum are whole units (the form parses   *)
(* them with int()), i.e. multiples of TicksPerUnit; every time stored in  *)
(* the model is in ticks.  Multiples of 0.5 are exact in Python's floats,  *)
(* so on these inputs the tick arithmetic is the arithmetic of the code;   *)
(* a context switch that is not exact in binary (0.3, say) makes Python    *)
(* round, which the model does not follow.                                 *)
(***************************************************************************)
EXTENDS Integers, Sequences, FiniteSets, TLC

\* ---------------------------------------------------------------- bounds
MaxProcs == 3
MaxBurst == 2
MaxArrival == 2
MaxCS == 2
MaxQuantum == 2

\* the form's default context switch, "0.5", is 1/TicksPerUnit
TicksPerUnit == 2

\* A run with quantum > 0 dispatches at most one slice per unit of burst;
\* the cap only stops the runs of srtf_scheduling with quantum <= 0.
MaxSlices == MaxProcs * MaxBurst

Policies == {"FCFS", "SPN", "HRRN", "RR", "SRTF"}
QuantumPolicies == {"RR", "SRTF"}
\* the quantum values tried: two invalid ones (-1, 0) and the valid ones
QuantumValues == (0 - 1) .. MaxQuantum

VARIABLES
    alg,                      \* the engine called
    time_quantum,             \* argument (ticks); 0 for engines without one
    time_Context_switching,   \* argument (ticks)
    rec,                      \* heap: object -> process dict
    processes,                \* the list object passed in (list of objects)
    given,                    \* history: list and records as passed in
    pc,                       \* "call" | "loop" | "done" | "error"
    idx,                      \* fcfs: position of the for loop
    current_time,
    gantt_data,               \* list of <<pid, start_time, end_time>>
    all_waiting_time, all_turnaround_time, all_response_time,
    total_waiting_time, total_turnaround_time, total_response_time,
    process_queue,            \* rr: ready queue
    pending,                  \* rr: the local name processes after line 658
    completed,                \* srtf: completed list
    finalized,                \* history: objects in the order finalized
    self_processes,           \* self.processes: list of process dicts
    process_table,            \* the Treeview's rows: [iid, values]
    inserted,                 \* rows inserted so far (the next row's iid - 1)
    edit_windows,             \* open edit dialogs: [item, pid] each
    message,                  \* the messagebox the last handler showed, or ""
    time_quantum_entry,       \* text of the quantum entry
    time_Context_switching_entry, \* text of the context switch entry
    sim_i,                    \* simulate_all_algorithms: i + 1; 0 when not running
    results,                  \* simulate_all_algorithms: results, in loop order
    last_simulation_results,  \* the attribute export_results reads
    csvfile,                  \* rows export_results wrote
    simulated,                \* history: a simulation ran through
    ops                       \* history: handlers run in the form

vars == <<alg, time_quantum, time_Context_switching, rec, processes, given,
          pc, idx, current_time, gantt_data,
          all_waiting_time, all_turnaround_time, all_response_time,
          total_waiting_time, total_turnaround_time, total_response_time,
          process_queue, pending, completed, finalized,
          self_processes, process_table, inserted, edit_windows, message,
          time_quantum_entry, time_Context_switching_entry, sim_i, results,
          last_simulation_results, csvfile, simulated, ops>>

\* ------------------------------------------------------------- helpers
\* the dict built by add_process / add_one_random / generate_random_processes
NewProcess(pid, cbt, at) ==
    [pid |-> pid, cbt |-> cbt, at |-> at, remaining_time |-> cbt,
     waiting_time |-> 0, turnaround_time |-> 0, response_time |-> -1,
     response_ratio |-> <<>>]

\* mutant: the arrival filter is lost, every process of the list is eligible
ArrivedAll(lst, r, t) == lst

\* [p for p in lst if p['at'] <= t]
Arrived(lst, r, t) == SelectSeq(lst, LAMBDA o : r[o].at <= t)

\* mutant: the boundary slipped to >=, so a process arriving exactly at t is
\* kept in both lists
NotArrivedOrNow(lst, r, t) == SelectSeq(lst, LAMBDA o : r[o].at >= t)

\* [p for p in lst if p['at'] > t]
NotArrived(lst, r, t) == SelectSeq(lst, LAMBDA o : r[o].at > t)

\* list.sort(key=lambda x: x['at']): Python's sort is stable
RECURSIVE InsertByAt(_, _, _)
InsertByAt(s, o, r) ==
    IF s = <<>> THEN <<o>>
    ELSE IF r[Head(s)].at <= r[o].at
         THEN <<Head(s)>> \o InsertByAt(Tail(s), o, r)
         ELSE <<o>> \o s

\* mutant: the sort is dropped, the list stays in input order
SortByAtDropped(s, r) == s

RECURSIVE SortByAt(_, _)
SortByAt(s, r) ==
    IF s = <<>> THEN <<>>
    ELSE InsertByAt(SortByAt(SubSeq(s, 1, Len(s) - 1), r), s[Len(s)], r)

\* list.remove(x): drops the first element equal (dict ==) to x
RemoveFirst(s, o, r) ==
    LET k == CHOOSE k \in 1 .. Len(s) :
                 /\ r[s[k]] = r[o]
                 /\ \A j \in 1 .. (k - 1) : r[s[j]] # r[o]
    IN  SubSeq(s, 1, k - 1) \o SubSeq(s, k + 1, Len(s))

\* min(eligible, key=lambda x: x['cbt']): the first minimal element
MinByCbt(eligible, r) ==
    LET k == CHOOSE k \in 1 .. Len(eligible) :
                 /\ \A j \in 1 .. Len(eligible) :
                        r[eligible[k]].cbt <= r[eligible[j]].cbt
                 /\ \A j \in 1 .. (k - 1) :
                        r[eligible[j]].cbt > r[eligible[k]].cbt
    IN  eligible[k]

\* min(eligible, key=lambda x: x['remaining_time'])
MinByRemaining(eligible, r) ==
    LET k == CHOOSE k \in 1 .. Len(eligible) :
                 /\ \A j \in 1 .. Len(eligible) :
                        r[eligible[k]].remaining_time <= r[eligible[j]].remaining_time
                 /\ \A j \in 1 .. (k - 1) :
                        r[eligible[j]].remaining_time > r[eligible[k]].remaining_time
    IN  eligible[k]

\* response_ratio = (waiting_time + cbt) / cbt, kept as <<numerator, denominator>>
ResponseRatio(t, p) == <<(t - p.at) + p.cbt, p.cbt>>

\* a < b for ratios with positive denominators
RatioLess(a, b) == a[1] * b[2] < b[1] * a[2]

\* max(eligible, key=lambda x: x['response_ratio']): the first maximal element
MaxByRatio(eligible, r) ==
    LET k == CHOOSE k \in 1 .. Len(eligible) :
                 /\ \A j \in 1 .. Len(eligible) :
                        ~ RatioLess(r[eligible[k]].response_ratio,
                                    r[eligible[j]].response_ratio)
                 /\ \A j \in 1 .. (k - 1) :
                        RatioLess(r[eligible[j]].response_ratio,
                                  r[eligible[k]].response_ratio)
    IN  eligible[k]

\* mutant: the == -1 guard is lost, every dispatch overwrites response_time
FirstResponseEvery(p, t) == t - p.at

\* if p['response_time'] == -1: p['response_time'] = current_time - p['at']
FirstResponse(p, t) ==
    IF p.response_time = -1 THEN t - p.at ELSE p.response_time

\* mutant: the slice is always a full quantum
ExecutionTimeFull(q, remaining) == q

\* mutant: the slice ignores the quantum and runs the process out
ExecutionTimeAll(q, remaining) == remaining

\* execution_time = min(time_quantum, p['remaining_time'])
ExecutionTime(q, remaining) == IF q <= remaining THEN q ELSE remaining

\* mutant: the arrival time is not subtracted
StartWaitingNoArrival(start_time, p) == start_time

\* fcfs/spn/hrrn: p['waiting_time'] = start_time - p['at']
StartWaiting(start_time, p) == start_time - p.at

\* mutant: the turnaround is measured from time 0, not from the arrival
EndTurnaroundFromZero(end_time, p) == end_time

\* fcfs/spn/hrrn: p['turnaround_time'] = end_time - p['at']
EndTurnaround(end_time, p) == end_time - p.at

\* rr/srtf: p['turnaround_time'] = current_time - p['at'], where current_time
\* is already end_time plus the context switch
ClockTurnaround(clock, p) == clock - p.at

\* mutant: remaining_time is subtracted instead of cbt
TurnaroundWaitingRemaining(p) == p.turnaround_time - p.remaining_time

\* rr/srtf: p['waiting_time'] = p['turnaround_time'] - p['cbt']
TurnaroundWaiting(p) == p.turnaround_time - p.cbt

\* mutant: the context switch is subtracted
NextClockBack(end_time, cs) == end_time - cs

\* current_time = end_time + time_Context_switching
NextClock(end_time, cs) == end_time + cs

\* min(p['at'] for p in processes)
MinAt(lst, r) ==
    CHOOSE a \in {r[lst[k]].at : k \in 1 .. Len(lst)} :
        \A k \in 1 .. Len(lst) : a <= r[lst[k]].at

\* ------------------------------------------------------- the application
\* self.algorithms
algorithms == <<"FCFS", "SPN", "HRRN", "RR", "SRTF">>

\* hasattr(self, name) is False
NoAttribute == "no attribute"

\* The text of an entry: a number (kept in ticks, so "0.5" is 1 tick and
\* "2" is 2 * TicksPerUnit ticks) or something that is no number.
Number(t) == [text |-> "number", ticks |-> t]
NotANumber == [text |-> "abc", ticks |-> 0]

\* int(text) raises ValueError unless text is a whole number
IsInt(e) == e.text = "number" /\ e.ticks % TicksPerUnit = 0

\* float(text) raises ValueError unless text is a number
IsFloat(e) == e.text = "number"

\* the row process_table.insert('', 'end', values=(pid, cbt, at)) adds
Row(iid, p) == [iid |-> iid, values |-> <<p.pid, p.cbt, p.at>>]

\* the object right after __init__ and a series of inserts that built lst
WidgetInit(lst) ==
    /\ self_processes = lst
    /\ process_table = [k \in 1 .. Len(lst) |-> Row(k, lst[k])]
    /\ inserted = Len(lst)
    /\ edit_windows = <<>>
    /\ message = ""
    /\ sim_i = 0
    /\ results = <<>>
    /\ last_simulation_results = NoAttribute
    /\ csvfile = <<>>
    /\ simulated = FALSE
    /\ ops = 0

\* the entries as __init__ fills them: quantum "2", context switch "0.5"
DefaultEntries ==
    /\ time_quantum_entry = Number(2 * TicksPerUnit)
    /\ time_Context_switching_entry = Number(1)

\* ---------------------------------------------------------------- Init
\* A valid input: a non-empty list of dicts with unique pids, cbt > 0,
\* at >= 0, as the list-building operations create them.
Init ==
    /\ alg \in Policies
    /\ time_quantum \in
          IF alg \in QuantumPolicies
          THEN {q * TicksPerUnit : q \in QuantumValues} ELSE {0}
    /\ time_Context_switching \in 0 .. MaxCS
    /\ \E n \in 1 .. MaxProcs :
         \E b \in [1 .. n -> 1 .. MaxBurst], a \in [1 .. n -> 0 .. MaxArrival] :
            /\ rec = [k \in 1 .. n |->
                        NewProcess(k, b[k] * TicksPerUnit, a[k] * TicksPerUnit)]
            /\ processes = [k \in 1 .. n |-> k]
    /\ given = [list |-> processes, rec |-> rec]
    /\ pc = "call"
    /\ idx = 1
    /\ current_time = 0
    /\ gantt_data = <<>>
    /\ all_waiting_time = <<>>
    /\ all_turnaround_time = <<>>
    /\ all_response_time = <<>>
    /\ total_waiting_time = 0
    /\ total_turnaround_time = 0
    /\ total_response_time = 0
    /\ process_queue = <<>>
    /\ pending = <<>>
    /\ completed = <<>>
    /\ finalized = <<>>
    /\ WidgetInit(<<>>)
    /\ DefaultEntries

\* ------------------------------------------------------ fcfs_scheduling
rrVars == <<process_queue, pending>>
srtfVars == <<completed>>
selfVars == <<self_processes, process_table, inserted, edit_windows, message,
              time_quantum_entry, time_Context_switching_entry, sim_i,
              results, last_simulation_results, csvfile, simulated, ops>>
\* the arguments of the call, and the object, which no engine touches
argVars == <<alg, time_quantum, time_Context_switching, given, selfVars>>
metricVars == <<all_waiting_time, all_turnaround_time, all_response_time,
                total_waiting_time, total_turnaround_time, total_response_time,
                finalized>>

\* processes.sort(key=lambda x: x['at']) and the locals
FcfsEnter ==
    /\ alg = "FCFS" /\ pc = "call"
    /\ processes' = SortByAt(processes, rec)
    /\ pc' = "loop"
    /\ UNCHANGED <<argVars, metricVars, rrVars, srtfVars, rec, idx,
                   current_time, gantt_data>>

\* one pass of `for process in processes`
FcfsIter ==
    /\ alg = "FCFS" /\ pc = "loop" /\ idx <= Len(processes)
    /\ LET o == processes[idx]
           clock == IF current_time < rec[o].at THEN rec[o].at ELSE current_time
           response == FirstResponse(rec[o], clock)
           start_time == clock
           end_time == clock + rec[o].cbt
           waiting == StartWaiting(start_time, rec[o])
           turnaround == EndTurnaround(end_time, rec[o])
       IN  /\ rec' = [rec EXCEPT ![o] = [@ EXCEPT !.response_time = response,
                                                  !.waiting_time = waiting,
                                                  !.turnaround_time = turnaround]]
           /\ gantt_data' = Append(gantt_data, <<rec[o].pid, start_time, end_time>>)
           /\ total_waiting_time' = total_waiting_time + waiting
           /\ all_waiting_time' = Append(all_waiting_time, waiting)
           /\ total_turnaround_time' = total_turnaround_time + turnaround
           /\ all_response_time' = Append(all_response_time, turnaround)
           /\ total_response_time' = total_response_time + response
           /\ all_turnaround_time' = Append(all_turnaround_time, response)
           /\ finalized' = Append(finalized, o)
           /\ current_time' = NextClock(end_time, time_Context_switching)
    /\ idx' = idx + 1
    /\ UNCHANGED <<argVars, rrVars, srtfVars, processes, pc>>

\* the loop is exhausted: build metrics and return
FcfsReturn ==
    /\ alg = "FCFS" /\ pc = "loop" /\ idx > Len(processes)
    /\ pc' = "done"
    /\ UNCHANGED <<argVars, metricVars, rrVars, srtfVars, rec, processes, idx,
                   current_time, gantt_data>>

\* ------------------------------------------------------- spn_scheduling
SpnEnter ==
    /\ alg = "SPN" /\ pc = "call"
    /\ pc' = "loop"
    /\ UNCHANGED <<argVars, metricVars, rrVars, srtfVars, rec, processes, idx,
                   current_time, gantt_data>>

\* `if not eligible: current_time += 1; continue`
SpnIdle ==
    /\ alg = "SPN" /\ pc = "loop" /\ processes # <<>>
    /\ Arrived(processes, rec, current_time) = <<>>
    /\ current_time' = current_time + TicksPerUnit
    /\ UNCHANGED <<argVars, metricVars, rrVars, srtfVars, rec, processes, idx,
                   pc, gantt_data>>

SpnDispatch ==
    /\ alg = "SPN" /\ pc = "loop" /\ processes # <<>>
    /\ Arrived(processes, rec, current_time) # <<>>
    /\ LET eligible == Arrived(processes, rec, current_time)
           selected == MinByCbt(eligible, rec)
           response == FirstResponse(rec[selected], current_time)
           start_time == current_time
           end_time == current_time + rec[selected].cbt
           waiting == StartWaiting(start_time, rec[selected])
           turnaround == EndTurnaround(end_time, rec[selected])
       IN  /\ processes' = RemoveFirst(processes, selected, rec)
           /\ rec' = [rec EXCEPT ![selected] =
                         [@ EXCEPT !.response_time = response,
                                   !.waiting_time = waiting,
                                   !.turnaround_time = turnaround]]
           /\ gantt_data' = Append(gantt_data,
                                   <<rec[selected].pid, start_time, end_time>>)
           /\ total_waiting_time' = total_waiting_time + waiting
           /\ all_waiting_time' = Append(all_waiting_time, waiting)
           /\ total_turnaround_time' = total_turnaround_time + turnaround
           /\ all_response_time' = Append(all_response_time, turnaround)
           /\ total_response_time' = total_response_time + response
           /\ all_turnaround_time' = Append(all_turnaround_time, response)
           /\ finalized' = Append(finalized, selected)
           /\ current_time' = NextClock(end_time, time_Context_switching)
    /\ UNCHANGED <<argVars, rrVars, srtfVars, idx, pc>>

SpnReturn ==
    /\ alg = "SPN" /\ pc = "loop" /\ processes = <<>>
    /\ pc' = "done"
    /\ UNCHANGED <<argVars, metricVars, rrVars, srtfVars, rec, processes, idx,
                   current_time, gantt_data>>

\* ------------------------------------------------------ hrrn_scheduling
HrrnEnter ==
    /\ alg = "HRRN" /\ pc = "call"
    /\ pc' = "loop"
    /\ UNCHANGED <<argVars, metricVars, rrVars, srtfVars, rec, processes, idx,
                   current_time, gantt_data>>

HrrnIdle ==
    /\ alg = "HRRN" /\ pc = "loop" /\ processes # <<>>
    /\ Arrived(processes, rec, current_time) = <<>>
    /\ current_time' = current_time + TicksPerUnit
    /\ UNCHANGED <<argVars, metricVars, rrVars, srtfVars, rec, processes, idx,
                   pc, gantt_data>>

\* `for p in eligible: p['response_ratio'] = ...`
WithRatios(r, eligible, t) ==
    [o \in DOMAIN r |->
        IF \E k \in 1 .. Len(eligible) : eligible[k] = o
        THEN [r[o] EXCEPT !.response_ratio = ResponseRatio(t, r[o])]
        ELSE r[o]]

HrrnDispatch ==
    /\ alg = "HRRN" /\ pc = "loop" /\ processes # <<>>
    /\ Arrived(processes, rec, current_time) # <<>>
    /\ LET eligible == Arrived(processes, rec, current_time)
           rated == WithRatios(rec, eligible, current_time)
           selected == MaxByRatio(eligible, rated)
           response == FirstResponse(rated[selected], current_time)
           start_time == current_time
           end_time == current_time + rated[selected].cbt
           waiting == StartWaiting(start_time, rated[selected])
           turnaround == EndTurnaround(end_time, rated[selected])
       IN  /\ processes' = RemoveFirst(processes, selected, rated)
           /\ rec' = [rated EXCEPT ![selected] =
                         [@ EXCEPT !.response_time = response,
                                   !.waiting_time = waiting,
                                   !.turnaround_time = turnaround]]
           /\ gantt_data' = Append(gantt_data,
                                   <<rated[selected].pid, start_time, end_time>>)
           /\ total_waiting_time' = total_waiting_time + waiting
           /\ all_waiting_time' = Append(all_waiting_time, waiting)
           /\ total_turnaround_time' = total_turnaround_time + turnaround
           /\ all_response_time' = Append(all_response_time, turnaround)
           /\ total_response_time' = total_response_time + response
           /\ all_turnaround_time' = Append(all_turnaround_time, response)
           /\ finalized' = Append(finalized, selected)
           /\ current_time' = NextClock(end_time, time_Context_switching)
    /\ UNCHANGED <<argVars, rrVars, srtfVars, idx, pc>>

HrrnReturn ==
    /\ alg = "HRRN" /\ pc = "loop" /\ processes = <<>>
    /\ pc' = "done"
    /\ UNCHANGED <<argVars, metricVars, rrVars, srtfVars, rec, processes, idx,
                   current_time, gantt_data>>

\* -------------------------------------------------------- rr_scheduling
\* `if time_quantum <= 0: raise ValueError(...)`
RrReject ==
    /\ alg = "RR" /\ pc = "call"
    /\ time_quantum <= 0
    /\ pc' = "error"
    /\ UNCHANGED <<argVars, metricVars, rrVars, srtfVars, rec, processes, idx,
                   current_time, gantt_data>>

\* the locals, the setdefault loop (every dict already has both keys) and the
\* split of the list into the ready queue and the not yet arrived
RrEnter ==
    /\ alg = "RR" /\ pc = "call"
    /\ time_quantum > 0
    /\ process_queue' = Arrived(processes, rec, current_time)
    /\ pending' = NotArrived(processes, rec, current_time)
    /\ pc' = "loop"
    /\ UNCHANGED <<argVars, metricVars, srtfVars, rec, processes, idx,
                   current_time, gantt_data>>

\* while processes and processes[0]['at'] <= current_time:
\*     process_queue.append(processes.pop(0))
\* mutant: the arrivals loop is lost, the pending list is only read by the
\* idle jump
TakeArrivedNone(queue, pend, r, t) == [queue |-> queue, pending |-> pend]

RECURSIVE TakeArrived(_, _, _, _)
TakeArrived(queue, pend, r, t) ==
    IF pend # <<>> /\ r[Head(pend)].at <= t
    THEN TakeArrived(Append(queue, Head(pend)), Tail(pend), r, t)
    ELSE [queue |-> queue, pending |-> pend]

\* mutant: the preempted process is requeued before the arrivals are taken
RrIterRequeueFirst ==
    /\ alg = "RR" /\ pc = "loop"
    /\ process_queue # <<>> \/ pending # <<>>
    /\ LET idle == process_queue = <<>> /\ pending # <<>>
           clock == IF idle THEN rec[pending[1]].at ELSE current_time
           queue1 == IF idle THEN Append(process_queue, pending[1])
                     ELSE process_queue
           pending1 == IF idle THEN Tail(pending) ELSE pending
           current_process == Head(queue1)
           queue2 == Tail(queue1)
           p == rec[current_process]
           response == FirstResponse(p, clock)
           execution_time == ExecutionTime(time_quantum, p.remaining_time)
           start_time == clock
           end_time == clock + execution_time
           remaining == p.remaining_time - execution_time
           clock2 == NextClock(end_time, time_Context_switching)
           taken == TakeArrived(IF remaining > 0 THEN Append(queue2, current_process)
                                 ELSE queue2,
                              pending1, rec, clock2)
           ran == [p EXCEPT !.response_time = response,
                            !.remaining_time = remaining]
           turnaround == ClockTurnaround(clock2, ran)
           timed == [ran EXCEPT !.turnaround_time = turnaround]
           waiting == TurnaroundWaiting(timed)
       IN  /\ gantt_data' = Append(gantt_data, <<p.pid, start_time, end_time>>)
           /\ current_time' = clock2
           /\ pending' = taken.pending
           /\ IF remaining > 0
              THEN /\ process_queue' = taken.queue
                   /\ rec' = [rec EXCEPT ![current_process] = ran]
                   /\ UNCHANGED metricVars
              ELSE /\ process_queue' = taken.queue
                   /\ rec' = [rec EXCEPT ![current_process] =
                                 [timed EXCEPT !.waiting_time = waiting]]
                   /\ total_waiting_time' = total_waiting_time + waiting
                   /\ all_waiting_time' = Append(all_waiting_time, waiting)
                   /\ total_turnaround_time' = total_turnaround_time + turnaround
                   /\ all_response_time' = Append(all_response_time, turnaround)
                   /\ total_response_time' = total_response_time + response
                   /\ all_turnaround_time' = Append(all_turnaround_time, response)
                   /\ finalized' = Append(finalized, current_process)
    /\ UNCHANGED <<argVars, srtfVars, processes, idx, pc>>

\* one pass of `while process_queue or processes`
RrIter ==
    /\ alg = "RR" /\ pc = "loop"
    /\ process_queue # <<>> \/ pending # <<>>
    /\ LET idle == process_queue = <<>> /\ pending # <<>>
           clock == IF idle THEN rec[pending[1]].at ELSE current_time
           queue1 == IF idle THEN Append(process_queue, pending[1])
                     ELSE process_queue
           pending1 == IF idle THEN Tail(pending) ELSE pending
           current_process == Head(queue1)
           queue2 == Tail(queue1)
           p == rec[current_process]
           response == FirstResponse(p, clock)
           execution_time == ExecutionTime(time_quantum, p.remaining_time)
           start_time == clock
           end_time == clock + execution_time
           remaining == p.remaining_time - execution_time
           clock2 == NextClock(end_time, time_Context_switching)
           taken == TakeArrived(queue2, pending1, rec, clock2)
           ran == [p EXCEPT !.response_time = response,
                            !.remaining_time = remaining]
           turnaround == ClockTurnaround(clock2, ran)
           timed == [ran EXCEPT !.turnaround_time = turnaround]
           waiting == TurnaroundWaiting(timed)
       IN  /\ gantt_data' = Append(gantt_data, <<p.pid, start_time, end_time>>)
           /\ current_time' = clock2
           /\ pending' = taken.pending
           /\ IF remaining > 0
              THEN /\ process_queue' = Append(taken.queue, current_process)
                   /\ rec' = [rec EXCEPT ![current_process] = ran]
                   /\ UNCHANGED metricVars
              ELSE /\ process_queue' = taken.queue
                   /\ rec' = [rec EXCEPT ![current_process] =
                                 [timed EXCEPT !.waiting_time = waiting]]
                   /\ total_waiting_time' = total_waiting_time + waiting
                   /\ all_waiting_time' = Append(all_waiting_time, waiting)
                   /\ total_turnaround_time' = total_turnaround_time + turnaround
                   /\ all_response_time' = Append(all_response_time, turnaround)
                   /\ total_response_time' = total_response_time + response
                   /\ all_turnaround_time' = Append(all_turnaround_time, response)
                   /\ finalized' = Append(finalized, current_process)
    /\ UNCHANGED <<argVars, srtfVars, processes, idx, pc>>

RrReturn ==
    /\ alg = "RR" /\ pc = "loop"
    /\ process_queue = <<>> /\ pending = <<>>
    /\ pc' = "done"
    /\ UNCHANGED <<argVars, metricVars, rrVars, srtfVars, rec, processes, idx,
                   current_time, gantt_data>>

\* ------------------------------------------------------ srtf_scheduling
\* the locals; the quantum is not looked at
SrtfEnter ==
    /\ alg = "SRTF" /\ pc = "call"
    /\ pc' = "loop"
    /\ UNCHANGED <<argVars, metricVars, rrVars, srtfVars, rec, processes, idx,
                   current_time, gantt_data>>

\* while processes or any(p['remaining_time'] > 0 for p in completed)
SrtfGoesOn ==
    \/ processes # <<>>
    \/ \E k \in 1 .. Len(completed) : rec[completed[k]].remaining_time > 0

\* `if not eligible: current_time = min(p['at'] for p in processes); continue`
SrtfIdle ==
    /\ alg = "SRTF" /\ pc = "loop" /\ SrtfGoesOn
    /\ Arrived(processes, rec, current_time) = <<>>
    /\ current_time' = MinAt(processes, rec)
    /\ UNCHANGED <<argVars, metricVars, rrVars, srtfVars, rec, processes, idx,
                   pc, gantt_data>>

SrtfDispatch ==
    /\ alg = "SRTF" /\ pc = "loop" /\ SrtfGoesOn
    /\ Arrived(processes, rec, current_time) # <<>>
    /\ time_quantum > 0 \/ Len(gantt_data) < MaxSlices
    /\ LET eligible == Arrived(processes, rec, current_time)
           selected == MinByRemaining(eligible, rec)
           p == rec[selected]
           response == FirstResponse(p, current_time)
           execution_time == ExecutionTime(time_quantum, p.remaining_time)
           start_time == current_time
           end_time == current_time + execution_time
           remaining == p.remaining_time - execution_time
           clock2 == NextClock(end_time, time_Context_switching)
           ran == [p EXCEPT !.response_time = response,
                            !.remaining_time = remaining]
           turnaround == ClockTurnaround(clock2, ran)
           timed == [ran EXCEPT !.turnaround_time = turnaround]
           waiting == TurnaroundWaiting(timed)
           final == [timed EXCEPT !.waiting_time = waiting]
       IN  /\ gantt_data' = Append(gantt_data, <<p.pid, start_time, end_time>>)
           /\ current_time' = clock2
           /\ IF remaining = 0
              THEN /\ rec' = [rec EXCEPT ![selected] = final]
                   /\ total_waiting_time' = total_waiting_time + waiting
                   /\ all_waiting_time' = Append(all_waiting_time, waiting)
                   /\ total_turnaround_time' = total_turnaround_time + turnaround
                   /\ all_response_time' = Append(all_response_time, turnaround)
                   /\ total_response_time' = total_response_time + response
                   /\ all_turnaround_time' = Append(all_turnaround_time, response)
                   /\ finalized' = Append(finalized, selected)
                   /\ completed' = Append(completed, selected)
                   /\ processes' = RemoveFirst(processes, selected,
                                               [rec EXCEPT ![selected] = final])
              ELSE /\ rec' = [rec EXCEPT ![selected] = ran]
                   /\ UNCHANGED <<metricVars, completed, processes>>
    /\ UNCHANGED <<argVars, rrVars, idx, pc>>

SrtfReturn ==
    /\ alg = "SRTF" /\ pc = "loop" /\ ~ SrtfGoesOn
    /\ pc' = "done"
    /\ UNCHANGED <<argVars, metricVars, rrVars, srtfVars, rec, processes, idx,
                   current_time, gantt_data>>

\* ------------------------------------------------------- specification
Next ==
    \/ FcfsEnter \/ FcfsIter \/ FcfsReturn
    \/ SpnEnter \/ SpnIdle \/ SpnDispatch \/ SpnReturn
    \/ HrrnEnter \/ HrrnIdle \/ HrrnDispatch \/ HrrnReturn
    \/ RrReject \/ RrEnter \/ RrIter \/ RrReturn
    \/ SrtfEnter \/ SrtfIdle \/ SrtfDispatch \/ SrtfReturn

Spec == Init /\ [][Next]_vars

\* The engines are sequential code: a call that can take a step takes it.
FairSpec == Spec /\ WF_vars(Next)

\* The worked example: P1 (arrival 0, burst 5), P2 (1, 3), P3 (2, 8), entered
\* through add_process in this order.
ScenarioProcesses ==
    <<NewProcess(1, 5 * TicksPerUnit, 0 * TicksPerUnit),
      NewProcess(2, 3 * TicksPerUnit, 1 * TicksPerUnit),
      NewProcess(3, 8 * TicksPerUnit, 2 * TicksPerUnit)>>

\* a call of an engine on the worked example
ScenarioInit ==
    /\ alg \in Policies
    /\ time_quantum \in
          IF alg \in QuantumPolicies
          THEN {q * TicksPerUnit : q \in QuantumValues} ELSE {0}
    /\ time_Context_switching \in 0 .. MaxCS
    /\ rec = ScenarioProcesses
    /\ processes = [k \in 1 .. Len(ScenarioProcesses) |-> k]
    /\ given = [list |-> processes, rec |-> rec]
    /\ pc = "call"
    /\ idx = 1
    /\ current_time = 0
    /\ gantt_data = <<>>
    /\ all_waiting_time = <<>>
    /\ all_turnaround_time = <<>>
    /\ all_response_time = <<>>
    /\ total_waiting_time = 0
    /\ total_turnaround_time = 0
    /\ total_response_time = 0
    /\ process_queue = <<>>
    /\ pending = <<>>
    /\ completed = <<>>
    /\ finalized = <<>>
    /\ WidgetInit(<<>>)
    /\ DefaultEntries

\* the engines on the bounded inputs and on the worked example
ScenarioSpec == (Init \/ ScenarioInit) /\ [][Next]_vars

\* ------------------------------------------------------ the metrics dict
\* mutant: the turnaround and response totals are swapped, as the lists are
MetricsSwapped ==
    LET n == IF alg = "FCFS" THEN Len(processes) ELSE Len(given.list)
    IN  [avg_waiting_time |-> <<total_waiting_time, n>>,
         avg_turnaround_time |-> <<total_response_time, n>>,
         avg_response_time |-> <<total_turnaround_time, n>>,
         all_waiting_time |-> all_waiting_time,
         all_turnaround_time |-> all_turnaround_time,
         all_response_time |-> all_response_time]

\* the averages of the metrics dict, each kept as <<sum, count>>
Metrics ==
    LET n == IF alg = "FCFS" THEN Len(processes) ELSE Len(given.list)
    IN  [avg_waiting_time |-> <<total_waiting_time, n>>,
         avg_turnaround_time |-> <<total_turnaround_time, n>>,
         avg_response_time |-> <<total_response_time, n>>,
         all_waiting_time |-> all_waiting_time,
         all_turnaround_time |-> all_turnaround_time,
         all_response_time |-> all_response_time]

\* ----------------------------------------------- simulate_all_algorithms
\* no engine is being called
EngineIdle ==
    /\ alg = "none"
    /\ time_quantum = 0
    /\ time_Context_switching = 0
    /\ rec = <<>>
    /\ processes = <<>>
    /\ given = [list |-> <<>>, rec |-> <<>>]
    /\ pc = "idle"
    /\ idx = 1
    /\ current_time = 0
    /\ gantt_data = <<>>
    /\ all_waiting_time = <<>>
    /\ all_turnaround_time = <<>>
    /\ all_response_time = <<>>
    /\ total_waiting_time = 0
    /\ total_turnaround_time = 0
    /\ total_response_time = 0
    /\ process_queue = <<>>
    /\ pending = <<>>
    /\ completed = <<>>
    /\ finalized = <<>>

\* the texts tried in the quantum entry: whole numbers from -1, "0.5", "abc"
QuantumTexts ==
    {Number(q * TicksPerUnit) : q \in QuantumValues} \cup {Number(1), NotANumber}

\* the texts tried in the context switch entry
ContextSwitchTexts == {Number(c) : c \in 0 .. MaxCS} \cup {NotANumber}

\* The form holds a list built by add_process (possibly none) and the two
\* entries hold some text; nothing was simulated or exported yet.
SimInit ==
    /\ EngineIdle
    /\ \E n \in 0 .. MaxProcs :
         \E b \in [1 .. n -> 1 .. MaxBurst], a \in [1 .. n -> 0 .. MaxArrival] :
            WidgetInit([k \in 1 .. n |->
                          NewProcess(k, b[k] * TicksPerUnit, a[k] * TicksPerUnit)])
    /\ time_quantum_entry \in QuantumTexts
    /\ time_Context_switching_entry \in ContextSwitchTexts

engineVars == <<rec, processes, idx, current_time, gantt_data, metricVars,
                rrVars, srtfVars>>

\* the handler up to the loop: the three checks and the locals
SimulateStart ==
    /\ sim_i = 0 /\ pc \in {"idle", "error"}
    /\ IF self_processes = <<>>
       THEN /\ message' = "Please add processes first"
            /\ UNCHANGED <<time_quantum, time_Context_switching, sim_i, results, pc>>
       ELSE IF ~ IsInt(time_quantum_entry)
       THEN /\ message' = "Invalid time quantum"
            /\ UNCHANGED <<time_quantum, time_Context_switching, sim_i, results, pc>>
       ELSE IF ~ IsFloat(time_Context_switching_entry)
       THEN /\ message' = "Invalid time Context switching"
            /\ UNCHANGED <<time_quantum, time_Context_switching, sim_i, results, pc>>
       ELSE /\ message' = ""
            /\ time_quantum' = time_quantum_entry.ticks
            /\ time_Context_switching' = time_Context_switching_entry.ticks
            /\ sim_i' = 1
            /\ results' = <<>>
            /\ pc' = "iterate"
    /\ UNCHANGED <<alg, given, engineVars, self_processes, process_table,
                   inserted, edit_windows, time_quantum_entry,
                   time_Context_switching_entry, last_simulation_results,
                   csvfile, simulated, ops>>

\* mutant: copy.copy, the dicts are the ones the engines before worked on
ShallowCopy(lst) ==
    IF rec # <<>> THEN rec ELSE [k \in 1 .. Len(lst) |-> lst[k]]

\* copy.deepcopy(lst): a new dict per element, equal to it, as objects
\* 1 .. len(lst)
DeepCopy(lst) == [k \in 1 .. Len(lst) |-> lst[k]]

\* the head of a pass of the loop: the copy and the call of the engine,
\* which starts with its locals
SimCall ==
    /\ sim_i > 0 /\ pc = "iterate"
    /\ alg' = algorithms[sim_i]
    /\ rec' = DeepCopy(self_processes)
    /\ processes' = [k \in 1 .. Len(self_processes) |-> k]
    /\ given' = [list |-> processes', rec |-> rec']
    /\ pc' = "call"
    /\ idx' = 1
    /\ current_time' = 0
    /\ gantt_data' = <<>>
    /\ all_waiting_time' = <<>>
    /\ all_turnaround_time' = <<>>
    /\ all_response_time' = <<>>
    /\ total_waiting_time' = 0
    /\ total_turnaround_time' = 0
    /\ total_response_time' = 0
    /\ process_queue' = <<>>
    /\ pending' = <<>>
    /\ completed' = <<>>
    /\ finalized' = <<>>
    /\ UNCHANGED <<time_quantum, time_Context_switching, selfVars>>

\* the rest of the pass: the results are stored and plotted; after the last
\* pass the comparison table is shown and the handler returns
SimStore ==
    /\ sim_i > 0 /\ pc = "done"
    /\ results' = Append(results, [algorithm |-> alg,
                                   gantt_data |-> gantt_data,
                                   metrics |-> Metrics])
    /\ IF sim_i < Len(algorithms)
       THEN /\ sim_i' = sim_i + 1
            /\ pc' = "iterate"
            /\ UNCHANGED simulated
       ELSE /\ sim_i' = 0
            /\ pc' = "idle"
            /\ simulated' = TRUE
    /\ UNCHANGED <<alg, time_quantum, time_Context_switching, given,
                   engineVars, self_processes, process_table, inserted,
                   edit_windows, message, time_quantum_entry,
                   time_Context_switching_entry, last_simulation_results,
                   csvfile, ops>>

\* rr_scheduling's ValueError is caught nowhere: the handler ends there
SimAbort ==
    /\ sim_i > 0 /\ pc = "error"
    /\ sim_i' = 0
    /\ UNCHANGED <<alg, time_quantum, time_Context_switching, given, pc,
                   engineVars, self_processes, process_table, inserted,
                   edit_windows, message, time_quantum_entry,
                   time_Context_switching_entry, results,
                   last_simulation_results, csvfile, simulated, ops>>

\* the header row of the file
CsvHeader ==
    <<"Algorithm", "Average Waiting Time", "Average Turnaround Time",
      "Average Response Time">>

\* the rows written from a results dict
CsvRows(res) ==
    [k \in 1 .. Len(res) |->
        <<res[k].algorithm, res[k].metrics.avg_waiting_time,
          res[k].metrics.avg_turnaround_time, res[k].metrics.avg_response_time>>]

\* export_results; file_path is "" when the file dialog is cancelled
export_results ==
    /\ sim_i = 0
    /\ IF last_simulation_results = NoAttribute
       THEN /\ message' = "Run simulation first"
            /\ UNCHANGED csvfile
       ELSE \E file_path \in {"", "scheduling_results.csv"} :
               IF file_path = ""
               THEN UNCHANGED <<message, csvfile>>
               ELSE /\ csvfile' = <<CsvHeader>> \o CsvRows(last_simulation_results)
                    /\ message' = "Export Successful"
    /\ UNCHANGED <<alg, time_quantum, time_Context_switching, given, pc,
                   engineVars, self_processes, process_table, inserted,
                   edit_windows, time_quantum_entry,
                   time_Context_switching_entry, sim_i, results,
                   last_simulation_results, simulated, ops>>

SimNext ==
    \/ SimulateStart \/ SimCall \/ SimStore \/ SimAbort \/ export_results
    \/ FcfsEnter \/ FcfsIter \/ FcfsReturn
    \/ SpnEnter \/ SpnIdle \/ SpnDispatch \/ SpnReturn
    \/ HrrnEnter \/ HrrnIdle \/ HrrnDispatch \/ HrrnReturn
    \/ RrReject \/ RrEnter \/ RrIter \/ RrReturn
    \/ SrtfEnter \/ SrtfIdle \/ SrtfDispatch \/ SrtfReturn

SimSpec == SimInit /\ [][SimNext]_vars

\* ------------------------------------------------- the process list form
\* bounds of the form's runs
MaxOps == 4
MaxDialogs == 1
MaxGenerated == 5
MaxRandomCbt == 1
MaxRandomAt == 1
MaxFormValue == 1

\* random.randint(5, 10), random.randint(1, 20), random.randint(0, 10):
\* the lower ends
MinGenerated == 5
MinRandomCbt == 1
MinRandomAt == 0

\* ids typed into the form (texts the Treeview hands back as they are)
UserPids == {"P1", "P2"}

\* texts typed into the burst and arrival entries: whole numbers from -1,
\* and a text that is no number
FormTexts ==
    {Number(v * TicksPerUnit) : v \in (0 - 1) .. MaxFormValue} \cup {NotANumber}

UiInit ==
    /\ EngineIdle
    /\ WidgetInit(<<>>)
    /\ DefaultEntries

uiFrame == <<alg, time_quantum, time_Context_switching, given, pc, engineVars,
             time_quantum_entry, time_Context_switching_entry, sim_i, results,
             last_simulation_results, csvfile, simulated>>

\* a handler of the form runs
FormStep == sim_i = 0 /\ ops < MaxOps /\ ops' = ops + 1

\* the positions of lst whose dict has this pid
WithPid(lst, pid) == {k \in 1 .. Len(lst) : lst[k].pid = pid}

\* the positions of the table whose row has this iid
WithIid(table, iid) == {k \in 1 .. Len(table) : table[k].iid = iid}

\* rows for the dicts of lst, inserted after `from` earlier inserts
Rows(lst, from) == [k \in 1 .. Len(lst) |-> Row(from + k, lst[k])]

add_process ==
    /\ FormStep
    /\ \E pid \in UserPids, cbt \in FormTexts, at \in FormTexts :
         IF ~ IsInt(cbt) \/ ~ IsInt(at)
         THEN /\ message' = "invalid literal for int()"
              /\ UNCHANGED <<self_processes, process_table, inserted>>
         ELSE IF cbt.ticks <= 0 \/ at.ticks < 0
         THEN /\ message' = "CPU Burst Time must be positive, Arrival Time non-negative"
              /\ UNCHANGED <<self_processes, process_table, inserted>>
         ELSE IF WithPid(self_processes, pid) # {}
         THEN /\ message' = "Process ID " \o pid \o " already exists"
              /\ UNCHANGED <<self_processes, process_table, inserted>>
         ELSE LET process == NewProcess(pid, cbt.ticks, at.ticks)
              IN  /\ self_processes' = Append(self_processes, process)
                  /\ process_table' = Append(process_table, Row(inserted + 1, process))
                  /\ inserted' = inserted + 1
                  /\ message' = ""
    /\ UNCHANGED <<uiFrame, edit_windows>>

clear_processes ==
    /\ FormStep
    /\ self_processes' = <<>>
    /\ process_table' = <<>>
    /\ message' = ""
    /\ UNCHANGED <<uiFrame, edit_windows, inserted>>

add_one_random ==
    /\ FormStep
    /\ \E cbt \in MinRandomCbt .. MaxRandomCbt, at \in MinRandomAt .. MaxRandomAt :
         LET num == Len(self_processes) + 1
             pid == "random" \o ToString(num)
             process == NewProcess(pid, cbt * TicksPerUnit, at * TicksPerUnit)
         IN  /\ self_processes' = Append(self_processes, process)
             /\ process_table' = Append(process_table, Row(inserted + 1, process))
             /\ inserted' = inserted + 1
    /\ message' = ""
    /\ UNCHANGED <<uiFrame, edit_windows>>

generate_random_processes ==
    /\ FormStep
    /\ \E num_processes \in MinGenerated .. MaxGenerated :
         \E cbt \in [1 .. num_processes -> MinRandomCbt .. MaxRandomCbt],
            at \in [1 .. num_processes -> MinRandomAt .. MaxRandomAt] :
            LET lst == [i \in 1 .. num_processes |->
                          NewProcess("random" \o ToString(i),
                                     cbt[i] * TicksPerUnit, at[i] * TicksPerUnit)]
            IN  /\ self_processes' = lst
                /\ process_table' = Rows(lst, inserted)
                /\ inserted' = inserted + num_processes
    /\ message' = ""
    /\ UNCHANGED <<uiFrame, edit_windows>>

\* edit_process up to the dialog; selected = 0 when no row is selected
edit_process ==
    /\ FormStep
    /\ \E selected \in 0 .. Len(process_table) :
         IF selected = 0
         THEN /\ message' = "Select a process to edit"
              /\ UNCHANGED edit_windows
         ELSE /\ Len(edit_windows) < MaxDialogs
              /\ edit_windows' = Append(edit_windows,
                                        [item |-> process_table[selected].iid,
                                         pid |-> process_table[selected].values[1]])
              /\ message' = ""
    /\ UNCHANGED <<uiFrame, self_processes, process_table, inserted>>

\* list with the first dict of this pid rewritten (the for loop with break)
Updated(lst, pid, new_pid, new_cbt, new_at) ==
    IF WithPid(lst, pid) = {} THEN lst
    ELSE LET k == CHOOSE k \in WithPid(lst, pid) : \A j \in WithPid(lst, pid) : k <= j
         IN  [lst EXCEPT ![k] = [@ EXCEPT !.pid = new_pid, !.cbt = new_cbt,
                                          !.at = new_at,
                                          !.remaining_time = new_cbt]]

\* the Save button of an open dialog; the row may be gone by then, and
\* process_table.item then raises TclError, which nothing catches
save_changes ==
    /\ FormStep
    /\ \E w \in 1 .. Len(edit_windows) :
       \E new_pid \in UserPids \cup {edit_windows[w].pid},
          new_cbt \in FormTexts, new_at \in FormTexts :
         IF ~ IsInt(new_cbt) \/ ~ IsInt(new_at)
         THEN /\ message' = "Invalid input"
              /\ UNCHANGED <<self_processes, process_table, edit_windows>>
         ELSE /\ self_processes' = Updated(self_processes, edit_windows[w].pid,
                                           new_pid, new_cbt.ticks, new_at.ticks)
              /\ message' = ""
              /\ IF WithIid(process_table, edit_windows[w].item) = {}
                 THEN UNCHANGED <<process_table, edit_windows>>
                 ELSE LET k == CHOOSE k \in WithIid(process_table, edit_windows[w].item) : TRUE
                      IN  /\ process_table' =
                                [process_table EXCEPT ![k].values =
                                    <<new_pid, new_cbt.ticks, new_at.ticks>>]
                          /\ edit_windows' = SubSeq(edit_windows, 1, w - 1) \o
                                SubSeq(edit_windows, w + 1, Len(edit_windows))
    /\ UNCHANGED <<uiFrame, inserted>>

delete_process ==
    /\ FormStep
    /\ \E selected \in 0 .. Len(process_table) :
         IF selected = 0
         THEN /\ message' = "Select a process to delete"
              /\ UNCHANGED <<self_processes, process_table>>
         ELSE LET pid == process_table[selected].values[1]
              IN  /\ self_processes' = SelectSeq(self_processes, LAMBDA p : p.pid # pid)
                  /\ process_table' = SubSeq(process_table, 1, selected - 1) \o
                        SubSeq(process_table, selected + 1, Len(process_table))
                  /\ message' = ""
    /\ UNCHANGED <<uiFrame, edit_windows, inserted>>

UiNext ==
    \/ add_process \/ clear_processes \/ add_one_random
    \/ generate_random_processes \/ edit_process \/ save_changes
    \/ delete_process

UiSpec == UiInit /\ [][UiNext]_vars

\* ------------------------------------------------------------ properties
\* the call respects the engines' precondition on the quantum
ValidCall == alg \in QuantumPolicies => time_quantum > 0

NonPreemptive == alg \in {"FCFS", "SPN", "HRRN"}

\* the objects finalized so far
Finalized == {finalized[k] : k \in 1 .. Len(finalized)}

\* the positions of the timeline that carry pid
IntervalsOf(pid) == {k \in 1 .. Len(gantt_data) : gantt_data[k][1] = pid}

IntervalLen(k) == gantt_data[k][3] - gantt_data[k][2]

\* end_time of the last interval of pid
LastEnd(pid) ==
    gantt_data[CHOOSE k \in IntervalsOf(pid) : \A j \in IntervalsOf(pid) : j <= k][3]

RECURSIVE SumLen(_)
SumLen(ks) ==
    IF ks = {} THEN 0
    ELSE LET k == CHOOSE k \in ks : TRUE IN IntervalLen(k) + SumLen(ks \ {k})

\* C1: under every policy, for a valid call (quantum > 0, context switch a
\* whole number of ticks >= 0), every finalized process has
\* turnaround_time - waiting_time = cbt (its burst time).
C1_MetricConsistency ==
    ValidCall =>
        \A o \in Finalized :
            rec[o].turnaround_time - rec[o].waiting_time = rec[o].cbt

C1_Witness ==
    /\ pc = "done" /\ alg = "SRTF" /\ ValidCall
    /\ Len(gantt_data) > Len(finalized)
    /\ \E o \in Finalized : rec[o].waiting_time > 0

\* C2: under every policy, a finalized process's turnaround_time is the
\* end_time of its last interval minus its arrival time (the context switch
\* after the last slice is not counted).
C2_TurnaroundFromLastInterval ==
    ValidCall =>
        \A o \in Finalized :
            rec[o].turnaround_time = LastEnd(rec[o].pid) - rec[o].at

\* C3: entry k of all_turnaround_time, all_response_time and all_waiting_time
\* is the turnaround_time, response_time and waiting_time of the k-th process
\* finalized.
C3_MetricListsNamed ==
    ValidCall =>
        /\ Len(all_turnaround_time) = Len(finalized)
        /\ Len(all_response_time) = Len(finalized)
        /\ Len(all_waiting_time) = Len(finalized)
        /\ \A k \in 1 .. Len(finalized) :
              /\ all_turnaround_time[k] = rec[finalized[k]].turnaround_time
              /\ all_response_time[k] = rec[finalized[k]].response_time
              /\ all_waiting_time[k] = rec[finalized[k]].waiting_time

\* C4: under every policy, for a valid call, every finalized process has
\* response_time <= waiting_time.
C4_ResponseBound ==
    ValidCall =>
        \A o \in Finalized : rec[o].response_time <= rec[o].waiting_time

C4_Witness ==
    /\ alg = "RR" /\ ValidCall
    /\ \E o \in Finalized :
          /\ rec[o].response_time > 0
          /\ rec[o].response_time < rec[o].waiting_time
          /\ Cardinality(IntervalsOf(rec[o].pid)) > 1

\* C5: under FCFS, SPN and HRRN every dispatched process has response_time
\* equal to waiting_time, and when the engine returns that is every process.
C5_ResponseIsWaiting ==
    NonPreemptive =>
        /\ \A o \in Finalized : rec[o].response_time = rec[o].waiting_time
        /\ pc = "done" =>
              \A o \in DOMAIN rec : rec[o].response_time = rec[o].waiting_time

C5_Witness ==
    /\ pc = "done" /\ alg = "HRRN"
    /\ time_Context_switching > 0
    /\ \E o \in DOMAIN rec : rec[o].waiting_time > 0 /\ rec[o].at > 0

\* C6: when a valid call returns, the lengths of the intervals carrying a
\* process's pid sum to that process's cbt.
C6_TimelineCoverage ==
    (pc = "done" /\ ValidCall) =>
        \A o \in DOMAIN rec : SumLen(IntervalsOf(rec[o].pid)) = rec[o].cbt

C6_Witness ==
    /\ pc = "done" /\ alg \in QuantumPolicies /\ ValidCall
    /\ \E o \in DOMAIN rec :
          /\ Cardinality(IntervalsOf(rec[o].pid)) > 1
          /\ rec[o].cbt > time_quantum

\* C7: for a valid call, two intervals of the timeline that belong to
\* different processes never overlap.
C7_NoOverlap ==
    ValidCall =>
        \A i, j \in 1 .. Len(gantt_data) :
            gantt_data[i][1] # gantt_data[j][1] =>
                \/ gantt_data[i][3] <= gantt_data[j][2]
                \/ gantt_data[j][3] <= gantt_data[i][2]

C7_Witness ==
    /\ ValidCall /\ time_Context_switching = 0
    /\ \E i, j \in 1 .. Len(gantt_data) :
          /\ gantt_data[i][1] # gantt_data[j][1]
          /\ gantt_data[i][3] = gantt_data[j][2]
          /\ IntervalLen(i) > 0 /\ IntervalLen(j) > 0

\* C8: in RR and SRTF with quantum > 0 every interval of the timeline has a
\* length greater than 0 and at most the quantum.
C8_QuantumBound ==
    (alg \in QuantumPolicies /\ time_quantum > 0) =>
        \A k \in 1 .. Len(gantt_data) :
            IntervalLen(k) > 0 /\ IntervalLen(k) <= time_quantum

C8_Witness ==
    /\ alg \in QuantumPolicies /\ time_quantum > 0
    /\ \E i, j \in 1 .. Len(gantt_data) :
          IntervalLen(i) = time_quantum /\ IntervalLen(j) < time_quantum

\* C9: RR and SRTF called with a quantum <= 0 fail before any slice is
\* dispatched: no interval is ever recorded and no process record changed.
C9_QuantumRejected ==
    (alg \in QuantumPolicies /\ time_quantum <= 0) =>
        /\ gantt_data = <<>>
        /\ rec = given.rec

\* every process finalized exactly once
FinalizedOnce ==
    /\ Len(finalized) = Len(given.list)
    /\ Finalized = DOMAIN rec
    /\ Len(all_waiting_time) = Len(given.list)
    /\ Len(all_turnaround_time) = Len(given.list)
    /\ Len(all_response_time) = Len(given.list)
    /\ alg \in QuantumPolicies => \A o \in DOMAIN rec : rec[o].remaining_time = 0

\* C10: every valid call terminates, and then every process has been
\* finalized exactly once (one entry per process in each metrics list, and
\* remaining_time = 0 everywhere in RR and SRTF).
C10_Terminates == ValidCall ~> (pc = "done" /\ FinalizedOnce)

C10_Witness ==
    /\ pc = "done" /\ FinalizedOnce
    /\ Len(finalized) > 1
    /\ Len(gantt_data) > Len(finalized)
    /\ \E k \in 2 .. Len(gantt_data) : gantt_data[k][2] > gantt_data[k - 1][3]

\* --------------------------------------------------- C12, C14, C15, C20
\* C12: every engine leaves the list it is given unchanged: when it returns
\* the list holds the same records in the same order with the same field
\* values as at the call.
C12_CallerListUnchanged ==
    (pc = "done" /\ ValidCall) =>
        /\ processes = given.list
        /\ rec = given.rec

\* the work done on pid in the first k intervals of the timeline
WorkUpTo(pid, k) == SumLen({j \in IntervalsOf(pid) : j <= k})

\* the processes of the call that have arrived by t and still have work left
\* after the first k intervals
EligibleAfter(k, t) ==
    {o \in DOMAIN given.rec :
        /\ given.rec[o].at <= t
        /\ WorkUpTo(given.rec[o].pid, k) < given.rec[o].cbt}

\* C14: the context switch is charged after every slice: each interval
\* starts at or after the end of the one before it plus the context switch,
\* and exactly then whenever some process is eligible at that instant.
C14_ContextSwitchCharged ==
    ValidCall =>
        \A k \in 1 .. (Len(gantt_data) - 1) :
            LET free == gantt_data[k][3] + time_Context_switching
            IN  /\ gantt_data[k + 1][2] >= free
                /\ EligibleAfter(k, free) # {} => gantt_data[k + 1][2] = free

RECURSIVE SumSeq(_)
SumSeq(s) == IF s = <<>> THEN 0 ELSE Head(s) + SumSeq(Tail(s))

\* C15: when a valid call returns, each average is the sum of the
\* processes' values of that metric over the number of input processes.
C15_AveragesAreMeans ==
    (pc = "done" /\ ValidCall) =>
        LET n == Len(rec)
        IN  /\ Metrics.avg_waiting_time =
                  <<SumSeq([o \in 1 .. n |-> rec[o].waiting_time]), n>>
            /\ Metrics.avg_turnaround_time =
                  <<SumSeq([o \in 1 .. n |-> rec[o].turnaround_time]), n>>
            /\ Metrics.avg_response_time =
                  <<SumSeq([o \in 1 .. n |-> rec[o].response_time]), n>>

C15_Witness ==
    /\ pc = "done" /\ ValidCall /\ Len(rec) > 1
    /\ total_response_time > 0
    /\ total_response_time < total_waiting_time
    /\ total_waiting_time < total_turnaround_time

\* C20: in RR, when the ready queue is empty and processes are pending, the
\* next slice starts at the smallest arrival time of all pending processes
\* and belongs to a process with that arrival time.
C20_IdleJumpToEarliest ==
    [][(alg = "RR" /\ pc = "loop" /\ process_queue = <<>> /\ pending # <<>>
          /\ Len(gantt_data') = Len(gantt_data) + 1) =>
        LET slice == gantt_data'[Len(gantt_data')]
        IN  /\ slice[2] = MinAt(pending, rec)
            /\ \E k \in 1 .. Len(pending) :
                  /\ rec[pending[k]].pid = slice[1]
                  /\ rec[pending[k]].at = MinAt(pending, rec)]_vars
\* ------------------------------------------------------------ C13, C19
Scenario == given.rec = ScenarioProcesses /\ given.list = <<1, 2, 3>>

\* the objects taken from the pending list by the step
Enqueued == {pending[k] : k \in 1 .. Len(pending)} \
                {pending'[k] : k \in 1 .. Len(pending')}

\* the head of the ready queue the step dispatches
Dispatched ==
    IF process_queue = <<>> THEN pending[1] ELSE process_queue[1]

\* a pass of rr's loop after which the dispatched process has work left
RrRequeues ==
    /\ alg = "RR" /\ pc = "loop"
    /\ Len(gantt_data') = Len(gantt_data) + 1
    /\ rec'[Dispatched].remaining_time > 0

\* the pid and start of the first dispatches of the worked example's RR run
\* with quantum 2 and context switch 0
ScenarioRrDispatches ==
    <<<<1, 0 * TicksPerUnit>>, <<2, 2 * TicksPerUnit>>,
      <<3, 4 * TicksPerUnit>>, <<1, 6 * TicksPerUnit>>>>

\* C13: in RR, when a process P finishes a slice with remaining_time > 0,
\* P is appended last to the ready queue: every pending process enqueued at
\* that step (each has arrival <= the clock after the slice and its context
\* switch) stands ahead of P.  On the worked example with quantum 2 and
\* context switch 0 the first four dispatches are P1 at 0, P2 at 2, P3 at 4,
\* P1 at 6.
C13_ArrivalsAheadOfRequeued ==
    /\ [][RrRequeues =>
            LET n == Len(process_queue')
            IN  /\ n > 0 /\ process_queue'[n] = Dispatched
                /\ \A o \in Enqueued \ {Dispatched} :
                      /\ rec[o].at <= current_time'
                      /\ \E k \in 1 .. (n - 1) : process_queue'[k] = o]_vars
    /\ []((Scenario /\ alg = "RR" /\ time_quantum = 2 * TicksPerUnit
              /\ time_Context_switching = 0) =>
            \A k \in 1 .. Len(ScenarioRrDispatches) :
                k <= Len(gantt_data) =>
                    <<gantt_data[k][1], gantt_data[k][2]>> = ScenarioRrDispatches[k])

C13_Witness ==
    /\ Scenario /\ alg = "RR" /\ time_quantum = 2 * TicksPerUnit
    /\ time_Context_switching = 0
    /\ Len(gantt_data) = 4
    /\ process_queue = <<2, 3, 1>>

\* C19: FCFS on the worked example with context switch 0 returns the
\* timeline (P1,0,5),(P2,5,8),(P3,8,16), the metrics P1 waiting 0 /
\* turnaround 5 / response 0, P2 4 / 7 / 4, P3 6 / 14 / 6, and the sums
\* 10, 26 and 10 over 3 processes.
C19_FcfsScenario ==
    (Scenario /\ alg = "FCFS" /\ time_Context_switching = 0 /\ pc = "done") =>
        /\ gantt_data = <<<<1, 0 * TicksPerUnit, 5 * TicksPerUnit>>,
                          <<2, 5 * TicksPerUnit, 8 * TicksPerUnit>>,
                          <<3, 8 * TicksPerUnit, 16 * TicksPerUnit>>>>
        /\ [o \in 1 .. 3 |-> <<rec[o].waiting_time, rec[o].turnaround_time,
                                rec[o].response_time>>]
             = <<<<0 * TicksPerUnit, 5 * TicksPerUnit, 0 * TicksPerUnit>>,
                 <<4 * TicksPerUnit, 7 * TicksPerUnit, 4 * TicksPerUnit>>,
                 <<6 * TicksPerUnit, 14 * TicksPerUnit, 6 * TicksPerUnit>>>>
        /\ Metrics.avg_waiting_time = <<10 * TicksPerUnit, 3>>
        /\ Metrics.avg_turnaround_time = <<26 * TicksPerUnit, 3>>
        /\ Metrics.avg_response_time = <<10 * TicksPerUnit, 3>>

C19_Witness ==
    /\ Scenario /\ alg = "FCFS" /\ time_Context_switching = 0 /\ pc = "done"
    /\ Len(gantt_data) = 3

\* ------------------------------------------------------------ C11, C16
\* a record as the list operations build it: nothing run, no response yet
Untouched(p) == p.remaining_time = p.cbt /\ p.response_time = -1

\* C11: simulate_all_algorithms leaves self.processes unchanged (same
\* records in the same order, each with remaining_time = cbt and
\* response_time = -1), and every policy is called on a copy equal to that
\* list, whatever the policies before it did to their copies.
C11_EachPolicyOnFreshCopy ==
    /\ [][(sim_i # 0 \/ sim_i' # 0) => self_processes' = self_processes]_vars
    /\ [](\A k \in 1 .. Len(self_processes) : Untouched(self_processes[k]))
    /\ []((sim_i > 0 /\ pc = "call") =>
            /\ processes = [k \in 1 .. Len(self_processes) |-> k]
            /\ \A k \in 1 .. Len(self_processes) : rec[k] = self_processes[k])

C11_Witness ==
    /\ sim_i = Len(algorithms) /\ pc = "call"
    /\ Len(results) = Len(algorithms) - 1
    /\ Len(self_processes) > 1
    /\ \E k \in 1 .. Len(self_processes) : self_processes[k].at > 0

\* C16: once simulate_all_algorithms has run through, export_results does
\* not report 'Run simulation first': it writes the header and one row per
\* policy (name and the three averages of that simulation), or leaves the
\* file alone when the file dialog is cancelled.
C16_ExportAfterSimulation ==
    [][(export_results /\ simulated) =>
          /\ message' # "Run simulation first"
          /\ \/ csvfile' = csvfile
             \/ /\ Len(results) = Len(algorithms)
                /\ csvfile' = <<CsvHeader>> \o CsvRows(results)]_vars

\* ------------------------------------------------------------ C17, C18
\* C17: after any sequence of add_process, add_one_random,
\* generate_random_processes, edit_process (save_changes), delete_process
\* and clear_processes, the process ids in self.processes are pairwise
\* distinct.
C17_PidsDistinct ==
    \A i \in 1 .. Len(self_processes), j \in 1 .. Len(self_processes) :
        i # j => self_processes[i].pid # self_processes[j].pid

\* C18: after any sequence of the list operations every record of
\* self.processes has cbt > 0, at >= 0 and remaining_time = cbt; an
\* operation given a burst <= 0 or an arrival < 0 is rejected, so that no
\* such value ever gets into the list.
C18_RecordsValid ==
    \A k \in 1 .. Len(self_processes) :
        /\ self_processes[k].cbt > 0
        /\ self_processes[k].at >= 0
        /\ self_processes[k].remaining_time = self_processes[k].cbt

\* ---------------------------------------------------------------- C21
\* C21: in RR, after every executed slice (the clock advanced by the slice
\* and the context switch, the arrivals loop run), no process with
\* at <= current_time is left in the pending list, whatever the order of
\* the input list.
C21_NoArrivedLeftPending ==
    (alg = "RR" /\ pc = "loop" /\ gantt_data # <<>>) =>
        \A k \in 1 .. Len(pending) : rec[pending[k]].at > current_time

\* ----------------------------------------------------- C22, C23, C24
\* the objects of the list that have arrived by the clock
EligibleNow == {processes[k] : k \in {j \in 1 .. Len(processes) :
                                        rec[processes[j]].at <= current_time}}

\* the step appends an interval to the timeline
Dispatches == Len(gantt_data') = Len(gantt_data) + 1

\* the object the step dispatches (ids are unique in the input)
Selected ==
    CHOOSE o \in EligibleNow : rec[o].pid = gantt_data'[Len(gantt_data')][1]

\* the position of object o in the input list
InputPos(o) == CHOOSE k \in 1 .. Len(given.list) : given.list[k] = o

\* C22: in SPN, at every decision point with an eligible process, the
\* dispatched process has the smallest cbt among the eligible ones; among
\* those of equal smallest cbt the earliest arrival wins, and among those
\* of equal arrival the earliest in input order.
C22_SpnSelection ==
    [][(alg = "SPN" /\ Dispatches) =>
          \A o \in EligibleNow \ {Selected} :
              \/ rec[Selected].cbt < rec[o].cbt
              \/ /\ rec[Selected].cbt = rec[o].cbt
                 /\ rec[Selected].at < rec[o].at
              \/ /\ rec[Selected].cbt = rec[o].cbt
                 /\ rec[Selected].at = rec[o].at
                 /\ InputPos(Selected) < InputPos(o)]_vars

\* the response ratio of object o at the clock of the decision point
RatioNow(o) == ResponseRatio(current_time, rec[o])

\* C23: in HRRN, at every decision point the dispatched process has the
\* maximum response ratio (current_time - at + cbt) / cbt among the eligible
\* processes, the ratios taken at the clock of that decision point; among
\* those of equal maximum ratio the smallest cbt wins, then the earliest
\* arrival.
C23_HrrnSelection ==
    [][(alg = "HRRN" /\ Dispatches) =>
          \A o \in EligibleNow \ {Selected} :
              \/ RatioLess(RatioNow(o), RatioNow(Selected))
              \/ /\ ~ RatioLess(RatioNow(Selected), RatioNow(o))
                 /\ rec[Selected].cbt < rec[o].cbt
              \/ /\ ~ RatioLess(RatioNow(Selected), RatioNow(o))
                 /\ rec[Selected].cbt = rec[o].cbt
                 /\ rec[Selected].at <= rec[o].at]_vars

\* C24: in SRTF with a quantum > 0, every dispatch selects the smallest
\* remaining_time among the processes with at <= clock and
\* remaining_time > 0; among those of equal smallest remaining_time the
\* earliest arrival wins, then the earliest in input order; and when none
\* is eligible the clock jumps to the earliest arrival among the
\* unfinished processes.
C24_SrtfSelection ==
    [][(alg = "SRTF" /\ pc = "loop" /\ ValidCall) =>
          /\ Dispatches =>
                /\ rec[Selected].remaining_time > 0
                /\ \A o \in EligibleNow \ {Selected} :
                      \/ rec[Selected].remaining_time < rec[o].remaining_time
                      \/ /\ rec[Selected].remaining_time = rec[o].remaining_time
                         /\ rec[Selected].at < rec[o].at
                      \/ /\ rec[Selected].remaining_time = rec[o].remaining_time
                         /\ rec[Selected].at = rec[o].at
                         /\ InputPos(Selected) < InputPos(o)
          /\ (EligibleNow = {} /\ processes # <<>>) =>
                /\ ~ Dispatches
                /\ current_time' = MinAt(processes, rec)]_vars

\* ---------------------------------------------------------------- C25
\* the clock at which the processor became free: the end of the last
\* interval plus the context switch, 0 before the first dispatch
FreeAt ==
    IF gantt_data = <<>> THEN 0
    ELSE gantt_data[Len(gantt_data)][3] + time_Context_switching

\* C25: in SPN and HRRN, when no process was eligible at the decision
\* point (none of the processes not yet run had arrived when the processor
\* became free), the next dispatch starts exactly at the smallest arrival
\* among the processes not yet run, for every context switch >= 0, also
\* half units.
C25_IdleStartsAtNextArrival ==
    [][(alg \in {"SPN", "HRRN"} /\ Dispatches
          /\ \A k \in 1 .. Len(processes) : rec[processes[k]].at > FreeAt) =>
              gantt_data'[Len(gantt_data')][2] = MinAt(processes, rec)]_vars

\* ---------------------------------------------------------------- C26
\* the object of the input that carries pid (ids are unique in the input)
ObjectOf(pid) == CHOOSE o \in DOMAIN given.rec : given.rec[o].pid = pid

\* the clock before the k-th interval: 0, or the end of the interval
\* before plus the context switch
ClockBefore(k) ==
    IF k = 1 THEN 0 ELSE gantt_data[k - 1][3] + time_Context_switching

\* C26: FCFS dispatches in non-decreasing arrival order, equal arrivals in
\* input order; every process gets exactly one interval (none twice, and
\* all of them at return), which starts at the larger of the clock and its
\* arrival and lasts exactly cbt.
C26_FcfsOrder ==
    alg = "FCFS" =>
        /\ \A k \in 1 .. Len(gantt_data), j \in 1 .. Len(gantt_data) :
              k < j =>
                 LET a == given.rec[ObjectOf(gantt_data[k][1])]
                     b == given.rec[ObjectOf(gantt_data[j][1])]
                 IN  /\ gantt_data[k][1] # gantt_data[j][1]
                     /\ \/ a.at < b.at
                        \/ /\ a.at = b.at
                           /\ InputPos(ObjectOf(gantt_data[k][1]))
                                < InputPos(ObjectOf(gantt_data[j][1]))
        /\ \A k \in 1 .. Len(gantt_data) :
              LET p == given.rec[ObjectOf(gantt_data[k][1])]
              IN  /\ gantt_data[k][2] =
                        (IF ClockBefore(k) < p.at THEN p.at ELSE ClockBefore(k))
                  /\ gantt_data[k][3] - gantt_data[k][2] = p.cbt
        /\ pc = "done" => Len(gantt_data) = Len(given.list)

C26_Witness ==
    /\ alg = "FCFS" /\ pc = "done" /\ Len(gantt_data) = 3
    /\ given.rec[1].at > given.rec[2].at
    /\ given.rec[2].at = given.rec[3].at
    /\ gantt_data[1][2] > 0
    /\ gantt_data[2][2] > given.rec[3].at
    /\ <<gantt_data[1][1], gantt_data[2][1], gantt_data[3][1]>>
         = <<given.rec[2].pid, given.rec[3].pid, given.rec[1].pid>>

\* ---------------------------------------------------------------- C27
\* the first interval of pid in the timeline
FirstInterval(pid) ==
    gantt_data[CHOOSE k \in IntervalsOf(pid) : \A j \in IntervalsOf(pid) : k <= j]

\* C27: in RR and SRTF, in every state, a process never dispatched so far
\* has response_time -1, and a process dispatched at least once has
\* response_time = start_time of its first interval - at (so it was set at
\* the first dispatch and no later dispatch changed it), which is not -1.
C27_ResponseSetOnce ==
    alg \in QuantumPolicies =>
        \A o \in DOMAIN rec :
            IF IntervalsOf(rec[o].pid) = {}
            THEN rec[o].response_time = -1
            ELSE /\ rec[o].response_time = FirstInterval(rec[o].pid)[2] - rec[o].at
                 /\ rec[o].response_time # -1

C27_Witness ==
    /\ alg \in QuantumPolicies /\ pc = "loop"
    /\ \E o \in DOMAIN rec :
          /\ Cardinality(IntervalsOf(rec[o].pid)) > 1
          /\ rec[o].response_time > 0
    /\ \E o \in DOMAIN rec : rec[o].response_time = -1

\* ---------------------------------------------------------------- C28
\* C28: under every policy, for a valid call, no process is executed
\* before it arrives (every interval's start_time is >= the arrival of its
\* process), and the intervals are appended with non-decreasing start_time.
C28_NotBeforeArrival ==
    ValidCall =>
        /\ \A k \in 1 .. Len(gantt_data) :
              gantt_data[k][2] >= given.rec[ObjectOf(gantt_data[k][1])].at
        /\ \A k \in 1 .. (Len(gantt_data) - 1) :
              gantt_data[k][2] <= gantt_data[k + 1][2]

C28_Witness ==
    /\ ValidCall /\ pc = "done" /\ Len(gantt_data) > 2
    /\ \E k \in 2 .. Len(gantt_data) :
          /\ gantt_data[k][2] = given.rec[ObjectOf(gantt_data[k][1])].at
          /\ gantt_data[k][2] > gantt_data[k - 1][3] + time_Context_switching
    /\ \E k \in 1 .. Len(gantt_data) :
          gantt_data[k][2] > given.rec[ObjectOf(gantt_data[k][1])].at

\* ---------------------------------------------------------------- C29
\* the stored list is in non-decreasing arrival order
ArrivalOrdered ==
    \A k \in 1 .. (Len(self_processes) - 1) :
        self_processes[k].at <= self_processes[k + 1].at

\* the quantum covers every burst
QuantumCoversBursts ==
    \A k \in 1 .. Len(self_processes) : self_processes[k].cbt <= time_quantum

\* the timeline stored for the policy at position i of self.algorithms
TimelineOf(i) == results[i].gantt_data

\* C29: when the process list is in non-decreasing arrival order and the
\* quantum is >= every burst, RR returns exactly the timeline FCFS returns
\* on the same list and context switch (same intervals, same order); while
\* RR runs its timeline is a prefix of FCFS's.
C29_RrEqualsFcfs ==
    (sim_i > 0 \/ simulated) /\ ArrivalOrdered /\ QuantumCoversBursts =>
        /\ (Len(results) >= 4 /\ results[1].algorithm = "FCFS"
               /\ results[4].algorithm = "RR") => TimelineOf(4) = TimelineOf(1)
        /\ (Len(results) = 3 /\ alg = "RR" /\ pc \in {"loop", "done"}) =>
              /\ Len(gantt_data) <= Len(TimelineOf(1))
              /\ gantt_data = SubSeq(TimelineOf(1), 1, Len(gantt_data))

C29_Witness ==
    /\ Len(results) >= 4 /\ ArrivalOrdered /\ QuantumCoversBursts
    /\ Len(self_processes) = 3
    /\ time_Context_switching > 0
    /\ self_processes[1].at > 0
    /\ self_processes[2].at = self_processes[1].at
    /\ self_processes[3].at > self_processes[2].at
    /\ self_processes[2].cbt < time_quantum
    /\ TimelineOf(4) = TimelineOf(1)
    /\ Len(TimelineOf(4)) = 3

====
